---------------------------- MODULE Spec2Model ----------------------------
(***************************************************************************)
(* rustop: a top-like process viewer (src/src/main.rs, src/src/config.rs). *)
(*                                                                         *)
(* The module models main(): configuration merge, the refresh-rate check,  *)
(* the signal flag and its watcher thread, and the refresh loop            *)
(* sample -> sleep -> stats -> filters -> sort -> print -> flag check.      *)
(*                                                                         *)
(* f64 values are modelled as exact rationals extended with +inf, -inf and *)
(* NaN, with the IEEE-754 special cases of division and multiplication;    *)
(* strings are sequences of one-character strings.                         *)
(***************************************************************************)
EXTENDS Integers, Sequences, FiniteSets, TLC

(***************************************************************************)
(* Bounds of the model.                                                    *)
(***************************************************************************)
\* largest number of logical CPUs the host reports (0, 1, ..., MaxCpus)
MaxCpus == 4
\* the uptime clock advances by -1 .. MaxElapsed seconds between snapshots
MaxElapsed == 2
\* largest terminal height (rows) the size query returns
MaxRows == 5
\* largest --top value
MaxTop == 5
\* the counts of what is begun after a signal stop at MaxCount
MaxCount == 3

(***************************************************************************)
(* Program constants.                                                      *)
(***************************************************************************)
\* stat.pid >= 100 in the kernel filter
KernelPidThreshold == 100
\* rows reserved for the header in print
HeaderRows == 2
\* name is trimmed to 20 characters in print
NameWidth == 20
\* bytes per MB / KB / GB in format_memory and in the memory filter
MB == 1000000
KB == 1000
GB == 1000000000

(***************************************************************************)
(* Option<T>: None is the empty sequence, Some(x) the one-element one.     *)
(***************************************************************************)
None == << >>
Some(x) == << x >>
IsSome(o) == Len(o) = 1
Unwrap(o) == o[1]

(***************************************************************************)
(* f64.  A value is [k, n, d]: k = "fin" is the rational n/d in lowest     *)
(* terms with d > 0; "pinf", "ninf" and "nan" carry n = 0, d = 1.          *)
(***************************************************************************)
Abs(x) == IF x < 0 THEN -x ELSE x

RECURSIVE GCD(_, _)
GCD(a, b) == IF b = 0 THEN a ELSE GCD(b, a % b)

NaN == [k |-> "nan", n |-> 0, d |-> 1]
PInf == [k |-> "pinf", n |-> 0, d |-> 1]
NInf == [k |-> "ninf", n |-> 0, d |-> 1]

\* the rational n/d, d # 0, in lowest terms
F(n, d) ==
    LET s == IF d < 0 THEN -1 ELSE 1
        g == GCD(Abs(n), Abs(d))
    IN [k |-> "fin", n |-> (s * n) \div g, d |-> (s * d) \div g]

IsFinite(x) == x.k = "fin"
IsNaN(x) == x.k = "nan"

\* -1, 0, 1 for a value that is not NaN
Sign(x) ==
    CASE x.k = "pinf" -> 1
      [] x.k = "ninf" -> -1
      [] OTHER -> IF x.n > 0 THEN 1 ELSE IF x.n < 0 THEN -1 ELSE 0

Inf(s) == IF s > 0 THEN PInf ELSE NInf

\* a - b
FSub(a, b) ==
    IF IsNaN(a) \/ IsNaN(b) THEN NaN
    ELSE IF IsFinite(a) /\ IsFinite(b) THEN F(a.n * b.d - b.n * a.d, a.d * b.d)
    ELSE IF IsFinite(b) THEN a
    ELSE IF IsFinite(a) THEN Inf(-Sign(b))
    ELSE IF a.k = b.k THEN NaN ELSE a

\* a / b; the divisors of the program are never negative zero
FDiv(a, b) ==
    IF IsNaN(a) \/ IsNaN(b) THEN NaN
    ELSE IF IsFinite(a) /\ IsFinite(b) THEN
        IF b.n = 0 THEN (IF a.n = 0 THEN NaN ELSE Inf(Sign(a)))
        ELSE F(a.n * b.d, a.d * b.n)
    ELSE IF IsFinite(b) THEN Inf(Sign(a) * (IF Sign(b) < 0 THEN -1 ELSE 1))
    ELSE IF IsFinite(a) THEN F(0, 1)
    ELSE NaN

\* a * b
FMul(a, b) ==
    IF IsNaN(a) \/ IsNaN(b) THEN NaN
    ELSE IF IsFinite(a) /\ IsFinite(b) THEN F(a.n * b.n, a.d * b.d)
    ELSE IF Sign(a) = 0 \/ Sign(b) = 0 THEN NaN
    ELSE Inf(Sign(a) * Sign(b))

\* f64::partial_cmp: "None" when either side is NaN
PartialCmp(a, b) ==
    IF IsNaN(a) \/ IsNaN(b) THEN "None"
    ELSE IF a.k = b.k /\ ~IsFinite(a) THEN "Equal"
    ELSE IF a.k = "ninf" \/ b.k = "pinf" THEN "Less"
    ELSE IF a.k = "pinf" \/ b.k = "ninf" THEN "Greater"
    ELSE IF a.n * b.d < b.n * a.d THEN "Less"
    ELSE IF a.n * b.d > b.n * a.d THEN "Greater"
    ELSE "Equal"

\* the operators < and > of f64: false when either side is NaN
FLt(a, b) == PartialCmp(a, b) = "Less"
FGt(a, b) == PartialCmp(a, b) = "Greater"

\* f64::max: the other operand when one is NaN
FMax(a, b) ==
    IF IsNaN(a) THEN b
    ELSE IF IsNaN(b) THEN a
    ELSE IF FLt(a, b) THEN b ELSE a

(***************************************************************************)
(* Strings: sequences of one-character strings.                            *)
(***************************************************************************)
LowerChar(c) ==
    CASE c = "B" -> "b"
      [] c = "K" -> "k"
      [] c = "T" -> "t"
      [] c = "U" -> "u"
      [] OTHER -> c

\* str::to_lowercase
ToLower(s) == [i \in 1..Len(s) |-> LowerChar(s[i])]

\* str::starts_with
StartsWith(s, p) == Len(p) <= Len(s) /\ SubSeq(s, 1, Len(p)) = p

\* str::contains
Contains(s, p) ==
    \E i \in 0..(Len(s) - Len(p)) : SubSeq(s, i + 1, i + Len(p)) = p

\* chars().take(n).collect()
TakeChars(s, n) == SubSeq(s, 1, IF Len(s) < n THEN Len(s) ELSE n)


(***************************************************************************)
(* Sequence helpers.                                                       *)
(***************************************************************************)
Min(a, b) == IF a < b THEN a ELSE b

\* usize::saturating_sub
SaturatingSub(a, b) == IF a < b THEN 0 ELSE a - b

\* Iterator::take
Take(s, n) == SubSeq(s, 1, Min(n, Len(s)))

Range(s) == {s[i] : i \in 1..Len(s)}

\* the enumerations, without repetition, of a finite set
Orderings(S) ==
    {o \in [1..Cardinality(S) -> S] : \A i, j \in 1..Cardinality(S) : o[i] = o[j] => i = j}

(***************************************************************************)
(* stats: the derivation of one UsageInfo per process of the first         *)
(* snapshot whose counters can still be read.                              *)
(*   sample  = [map, uptime]: the result of sample(); map is a function    *)
(*             from the sampled PIDs to UsageInfo (cpu = cumulative time); *)
(*   usage   = the result of pidrusage at the second read, per PID:        *)
(*             None (Err) or Some([cpu_time, mem]);                        *)
(*   order   = the iteration order of the HashMap.                         *)
(***************************************************************************)
ElapsedTime(uptime_t2, uptime_t1) ==
    FMax(FSub(F(uptime_t2, 1), F(uptime_t1, 1)), F(1, 100))

CpuUsage(new_cpu_time, old_cpu_time, elapsed_time, ncpus) ==
    FMul(FDiv(FSub(new_cpu_time, old_cpu_time), elapsed_time),
         FDiv(F(100, 1), F(ncpus, 1)))

RECURSIVE StatsFrom(_, _, _, _, _)
StatsFrom(order, map, usage, elapsed_time, ncpus) ==
    IF order = << >> THEN << >>
    ELSE LET pid == Head(order)
             info == map[pid]
             rest == StatsFrom(Tail(order), map, usage, elapsed_time, ncpus)
         IN IF IsSome(usage[pid])
            THEN << [pid |-> pid,
                     name |-> info.name,
                     cpu |-> CpuUsage(F(Unwrap(usage[pid]).cpu_time, 1), info.cpu,
                                      elapsed_time, ncpus),
                     mem |-> Unwrap(usage[pid]).mem,
                     start_time |-> info.start_time] >> \o rest
            ELSE rest

\* a stats that does not look at the result of the second read
Stats_IgnoresFailedRead(ncpus, smp, uptime_t2, usage, order) ==
    StatsFrom(order, smp.map,
              [p \in DOMAIN usage |->
                  IF IsSome(usage[p]) THEN usage[p] ELSE Some([cpu_time |-> 0, mem |-> 0])],
              ElapsedTime(uptime_t2, smp.uptime), ncpus)

\* a stats that keeps the memory of the first snapshot
Stats_KeepsFirstMemory(ncpus, smp, uptime_t2, usage, order) ==
    StatsFrom(order, smp.map,
              [p \in DOMAIN usage |->
                  IF IsSome(usage[p]) /\ p \in DOMAIN smp.map
                  THEN Some([cpu_time |-> Unwrap(usage[p]).cpu_time,
                             mem |-> smp.map[p].mem])
                  ELSE usage[p]],
              ElapsedTime(uptime_t2, smp.uptime), ncpus)

Stats(ncpus, smp, uptime_t2, usage, order) ==
    StatsFrom(order, smp.map, usage, ElapsedTime(uptime_t2, smp.uptime), ncpus)

(***************************************************************************)
(* format_memory, format_time and the cpu column of print.                 *)
(***************************************************************************)
\* x/unit rounded to two decimals, in hundredths ({:.2}); unit >= 1000
Hundredths(bytes, unit) ==
    (bytes \div unit) * 100 + ((bytes % unit) + unit \div 200) \div (unit \div 100)

FormatMemory(bytes, human_readable) ==
    IF ~human_readable THEN [unit |-> "", whole |-> bytes \div MB, hundredths |-> 0]
    ELSE IF bytes >= GB THEN [unit |-> "GB", whole |-> 0, hundredths |-> Hundredths(bytes, GB)]
    ELSE IF bytes >= MB THEN [unit |-> "MB", whole |-> 0, hundredths |-> Hundredths(bytes, MB)]
    ELSE IF bytes >= KB THEN [unit |-> "KB", whole |-> 0, hundredths |-> Hundredths(bytes, KB)]
    ELSE [unit |-> "B", whole |-> bytes, hundredths |-> 0]

\* {:.2} of an f64: the value in hundredths, rounded half to even
FormatCpu(x) ==
    IF ~IsFinite(x) THEN [k |-> x.k, hundredths |-> 0]
    ELSE LET num == Abs(x.n) * 100
             q == num \div x.d
             r == num % x.d
             up == 2 * r > x.d \/ (2 * r = x.d /\ q % 2 = 1)
         IN [k |-> "fin", hundredths |-> Sign(x) * (IF up THEN q + 1 ELSE q)]

\* %H:%M:%S of a timestamp (UTC)
FormatTime(timestamp) ==
    << (timestamp \div 3600) % 24, (timestamp \div 60) % 60, timestamp % 60 >>

(***************************************************************************)
(* The five filters of the loop.  The user and the kernel filter look the  *)
(* process up again (a fresh System per call):                             *)
(*   owner  = None (no such process), Some(None) (no user id) or           *)
(*            Some(Some(uid)), uid the decimal string of the user id;      *)
(*   kproc  = None (no such process) or Some(name).                        *)
(***************************************************************************)
NameFilter(filter_opt, stat) ==
    IF IsSome(filter_opt)
    THEN Contains(ToLower(stat.name), ToLower(Unwrap(filter_opt)))
    ELSE TRUE

UserFilter(user_opt, stat, owner) ==
    IF IsSome(user_opt)
    THEN IF IsSome(owner)
         THEN IF IsSome(Unwrap(owner))
              THEN Contains(Unwrap(Unwrap(owner)), ToLower(Unwrap(user_opt)))
              ELSE FALSE
         ELSE FALSE
    ELSE TRUE

\* a kernel filter that fails closed
KernelFilter_FailClosed(no_kernel, stat, kproc) ==
    IF no_kernel
    THEN IF IsSome(kproc)
         THEN ~StartsWith(Unwrap(kproc), <<"k", "e", "r", "n", "e", "l">>)
              /\ stat.pid >= KernelPidThreshold
         ELSE FALSE
    ELSE TRUE

KernelFilter(no_kernel, stat, kproc) ==
    IF no_kernel
    THEN IF IsSome(kproc)
         THEN ~StartsWith(Unwrap(kproc), <<"k", "e", "r", "n", "e", "l">>)
              /\ stat.pid >= KernelPidThreshold
         ELSE TRUE
    ELSE TRUE

CpuFilter(cpu_above, cpu_below, stat) ==
    LET above_check == IF IsSome(cpu_above) THEN FGt(stat.cpu, Unwrap(cpu_above)) ELSE TRUE
        below_check == IF IsSome(cpu_below) THEN FLt(stat.cpu, Unwrap(cpu_below)) ELSE TRUE
    IN above_check /\ below_check

MemFilter(mem_above, mem_below, human_readable, stat) ==
    LET above_check ==
            IF IsSome(mem_above)
            THEN IF human_readable
                 THEN stat.mem > Unwrap(mem_above)
                 ELSE stat.mem > Unwrap(mem_above) * MB
            ELSE TRUE
        below_check ==
            IF IsSome(mem_below)
            THEN IF human_readable
                 THEN stat.mem < Unwrap(mem_below)
                 ELSE stat.mem < Unwrap(mem_below) * MB
            ELSE TRUE
    IN above_check /\ below_check

\* filters.iter().all(|filter| filter(stat))
Passes(a, stat, owner, kproc) ==
    /\ NameFilter(a.filter, stat)
    /\ UserFilter(a.user, stat, owner)
    /\ KernelFilter(a.no_kernel, stat, kproc)
    /\ CpuFilter(a.cpu_above, a.cpu_below, stat)
    /\ MemFilter(a.mem_above, a.mem_below, a.human_readable, stat)

\* stats.retain(...): owners and kprocs give the lookups per PID
RECURSIVE Retain(_, _, _, _)
Retain(list, a, owners, kprocs) ==
    IF list = << >> THEN << >>
    ELSE LET stat == Head(list)
             rest == Retain(Tail(list), a, owners, kprocs)
         IN IF Passes(a, stat, owners[stat.pid], kprocs[stat.pid])
            THEN << stat >> \o rest
            ELSE rest

(***************************************************************************)
(* The sort.  Compare is the closure handed to sort_by; slice::sort_by is  *)
(* the stable sort of std, which for slices of at most 20 elements is an   *)
(* insertion sort driven by is_less(a, b) = (compare(a, b) = Less).        *)
(***************************************************************************)
IntCmp(x, y) == IF x < y THEN "Less" ELSE IF x > y THEN "Greater" ELSE "Equal"

UnwrapOr(ordering, default) == IF ordering = "None" THEN default ELSE ordering

Compare(sort_by, a, b) ==
    CASE sort_by = "Cpu" -> UnwrapOr(PartialCmp(b.cpu, a.cpu), "Less")
      [] sort_by = "Memory" -> IntCmp(b.mem, a.mem)
      [] sort_by = "Pid" -> IntCmp(a.pid, b.pid)
      [] sort_by = "StartTime" -> IntCmp(a.start_time, b.start_time)

IsLess(sort_by, a, b) == Compare(sort_by, a, b) = "Less"

\* insert_tail: x moves left past every element it is less than
RECURSIVE InsertTail(_, _, _)
InsertTail(sort_by, sorted, x) ==
    IF sorted = << >> THEN << x >>
    ELSE IF IsLess(sort_by, x, sorted[Len(sorted)])
         THEN InsertTail(sort_by, SubSeq(sorted, 1, Len(sorted) - 1), x)
              \o << sorted[Len(sorted)] >>
         ELSE sorted \o << x >>

RECURSIVE SortFrom(_, _, _)
SortFrom(sort_by, sorted, rest) ==
    IF rest = << >> THEN sorted
    ELSE SortFrom(sort_by, InsertTail(sort_by, sorted, Head(rest)), Tail(rest))

SortBy(sort_by, list) == SortFrom(sort_by, << >>, list)

(***************************************************************************)
(* print: the rows written below the header.  size is None when the        *)
(* terminal size query fails, else Some(rows).                             *)
(***************************************************************************)
TerminalRows(size) == IF IsSome(size) THEN Unwrap(size) ELSE 0

\* a row budget that forgets the header
LinesToPrint_NoHeader(top, size) ==
    IF IsSome(top)
    THEN Min(Unwrap(top), TerminalRows(size))
    ELSE TerminalRows(size)

LinesToPrint(top, size) ==
    IF IsSome(top)
    THEN Min(Unwrap(top), SaturatingSub(TerminalRows(size), HeaderRows))
    ELSE SaturatingSub(TerminalRows(size), HeaderRows)

Row(stat, human_readable) ==
    [pid |-> stat.pid,
     name |-> TakeChars(stat.name, NameWidth),
     cpu |-> FormatCpu(stat.cpu),
     mem |-> FormatMemory(stat.mem, human_readable),
     start_time |-> FormatTime(stat.start_time)]

PrintRows(list, a, size) ==
    LET shown == Take(list, LinesToPrint(a.top, size))
    IN [i \in 1..Len(shown) |-> Row(shown[i], a.human_readable)]


(***************************************************************************)
(* Command line, configuration file and their merge.                       *)
(*                                                                         *)
(* The command line gives, per option, None (not supplied) or              *)
(* Some([text, attached, val]): text is the option's name as typed ("-s",  *)
(* "--sort-by"), attached says that the same argument carries more than    *)
(* the name ("--sort-by=memory", "-smemory", "-kH"), so that the argument  *)
(* equals text only when it is not attached; val is the value clap parses. *)
(* The configuration gives an Option per field.                            *)
(***************************************************************************)
Fields ==
    {"sort_by", "refresh_rate", "top", "filter", "user", "no_kernel",
     "human_readable", "cpu_above", "cpu_below", "mem_above", "mem_below"}

\* the option names each merge block looks for in std::env::args()
OptionNames(f) ==
    CASE f = "sort_by" -> {"-s", "--sort-by"}
      [] f = "refresh_rate" -> {"-r", "--refresh-rate"}
      [] f = "top" -> {"-t", "--top"}
      [] f = "filter" -> {"-f", "--filter"}
      [] f = "user" -> {"-u", "--user"}
      [] f = "no_kernel" -> {"-k", "--no-kernel"}
      [] f = "human_readable" -> {"-H", "--human-readable"}
      [] f = "cpu_above" -> {"--cpu-above"}
      [] f = "cpu_below" -> {"--cpu-below"}
      [] f = "mem_above" -> {"--mem-above"}
      [] f = "mem_below" -> {"--mem-below"}

\* the fields of Args that are Option<T>
OptionalFields == {"top", "filter", "user", "cpu_above", "cpu_below", "mem_above", "mem_below"}

\* the flags of Args (bool, set by presence)
FlagFields == {"no_kernel", "human_readable"}

\* what Args::parse gives a field that the command line does not supply
ClapDefault(f) ==
    CASE f = "sort_by" -> "Cpu"
      [] f = "refresh_rate" -> F(1, 1)
      [] f \in FlagFields -> FALSE
      [] OTHER -> None

\* Args::parse, per field
ClapParse(cl, f) ==
    IF ~IsSome(cl[f]) THEN ClapDefault(f)
    ELSE IF f \in FlagFields THEN TRUE
    ELSE IF f \in OptionalFields THEN Some(Unwrap(cl[f]).val)
    ELSE Unwrap(cl[f]).val

\* the arguments of std::env::args() that are an option name and nothing more
ArgStrings(cl) ==
    {Unwrap(cl[f]).text : f \in {g \in Fields : IsSome(cl[g]) /\ ~Unwrap(cl[g]).attached}}

\* std::env::args().any(|arg| arg == short || arg == long)
OnCommandLine(cl, f) == ArgStrings(cl) \cap OptionNames(f) # {}

\* one merge block: the configured value unless the option is found in args()
MergeField(cl, cfg, f) ==
    IF IsSome(cfg[f]) /\ ~OnCommandLine(cl, f)
    THEN IF f \in OptionalFields THEN Some(Unwrap(cfg[f])) ELSE Unwrap(cfg[f])
    ELSE ClapParse(cl, f)

Merge(cl, cfg, generate_config) ==
    [sort_by |-> MergeField(cl, cfg, "sort_by"),
     refresh_rate |-> MergeField(cl, cfg, "refresh_rate"),
     top |-> MergeField(cl, cfg, "top"),
     filter |-> MergeField(cl, cfg, "filter"),
     user |-> MergeField(cl, cfg, "user"),
     no_kernel |-> MergeField(cl, cfg, "no_kernel"),
     human_readable |-> MergeField(cl, cfg, "human_readable"),
     cpu_above |-> MergeField(cl, cfg, "cpu_above"),
     cpu_below |-> MergeField(cl, cfg, "cpu_below"),
     mem_above |-> MergeField(cl, cfg, "mem_above"),
     mem_below |-> MergeField(cl, cfg, "mem_below"),
     generate_config |-> generate_config]

\* Config::default (also what Config::load falls back to)
ConfigDefault ==
    [f \in Fields |->
        CASE f = "sort_by" -> Some("Cpu")
          [] f = "refresh_rate" -> Some(F(1, 1))
          [] OTHER -> None]

\* a command line that supplies no option
NoCli == [f \in Fields |-> None]

\* a configuration file that sets no field
NoConfig == [f \in Fields |-> None]


(***************************************************************************)
(* The state of the program and of what it reads from its host.            *)
(***************************************************************************)
VARIABLES
    pc,            \* where main is
    cli,           \* the command line, as read by Args::parse and env::args
    config,        \* the configuration Config::load returned
    args,          \* Args, after the merge
    exit,          \* what main returned: "none" (running), "ok", "err"
    registered,    \* the signal handlers are registered on the flag
    term,          \* the shutdown flag (Arc<AtomicBool>)
    watcher,       \* the cleanup_on_signal thread
    altScreen,     \* the terminal is in the alternate screen, cursor hidden
    num_cpus,      \* sys.cpus().len()
    sample,        \* the first snapshot of the cycle: [map, uptime]
    stats,         \* the Vec<UsageInfo> of the cycle
    rendered,      \* the rows on the screen
    \* what the cycle read from the host, and counts, kept for the properties
    slept,         \* the intervals thread::sleep was called with
    tick,          \* [dt, usage, start_time]: the host at the second read
    lookups,       \* [owners, kprocs, before]: the lookups of the filters
    termsize,      \* what size() returned to print
    signalled,     \* a termination signal has set the flag
    after          \* [samples, sleeps, renders] begun since the signal

vars == << pc, cli, config, args, exit, registered, term, watcher, altScreen,
           num_cpus, sample, stats, rendered, slept, tick, lookups, termsize,
           signalled, after >>

hostVars == << slept, tick, lookups, termsize >>

(***************************************************************************)
(* The values the model draws from.                                        *)
(***************************************************************************)
KernelTask == <<"k", "e", "r", "n", "e", "l", "_", "t", "a", "s", "k">>
Bash == <<"B", "a", "s", "h">>
Unknown == <<"U", "n", "k", "n", "o", "w", "n">>

\* one PID below and one above the kernel threshold
LowPid == KernelPidThreshold - 50
HighPid == KernelPidThreshold + 50

\* the snapshots over the PIDs P: each PID absent (not listed, or its
\* counters unreadable) or present with attributes from Attrs
Snapshots(P, Attrs) ==
    UNION {{[p \in S |-> [pid |-> p,
                          name |-> g[p].name,
                          cpu |-> F(g[p].cpu_time, 1),
                          mem |-> g[p].mem,
                          start_time |-> g[p].start_time]] : g \in [S -> Attrs]}
           : S \in SUBSET P}

\* the second read over the PIDs P: a PID of W that is in the first snapshot
\* reads None (Err) or one of Usages, every other PID is gone or reads first
SecondReads(P, W, map, Usages, first) ==
    {u \in [P -> {None} \cup {Some(x) : x \in Usages \cup {first}}] :
        \A p \in P \ (W \cap DOMAIN map) : u[p] \in {None, Some(first)}}

\* the start time the host reports for each sampled PID at the second read:
\* the one of the first snapshot, or for a PID of W one of Restarts (the PID
\* was given to a new process, or its start time was not known before)
SecondStarts(W, map, Restarts) ==
    {st \in [DOMAIN map -> {map[p].start_time : p \in DOMAIN map} \cup Restarts] :
        \A p \in DOMAIN map :
            st[p] \in {map[p].start_time} \cup (IF p \in W THEN Restarts ELSE {})}

NoTick == [dt |-> 0, usage |-> << >>, start_time |-> << >>]
NoLookups == [owners |-> << >>, kprocs |-> << >>, before |-> << >>]
NoSample == [map |-> << >>, uptime |-> 0]
NoAfter == [samples |-> 0, sleeps |-> 0, renders |-> 0]

Bump(field) ==
    IF signalled /\ after[field] < MaxCount THEN [after EXCEPT ![field] = @ + 1] ELSE after

(***************************************************************************)
(* main, before the loop.                                                  *)
(***************************************************************************)
\* Config::load, Args::parse and the merge blocks
LoadAndMerge(Inputs) ==
    /\ pc = "Start"
    /\ \E inp \in Inputs :
          /\ cli' = inp.cli
          /\ config' = inp.cfg
          /\ args' = Merge(inp.cli, inp.cfg, inp.gen)
    /\ pc' = "Merged"
    /\ UNCHANGED << exit, registered, term, watcher, altScreen, num_cpus, sample,
                    stats, rendered, hostVars, signalled, after >>

\* --generate-config: save and return, whatever the settings are
GenerateConfig ==
    /\ pc = "Merged"
    /\ args.generate_config
    /\ \E saved \in BOOLEAN : exit' = IF saved THEN "ok" ELSE "err"
    /\ pc' = "Exited"
    /\ UNCHANGED << cli, config, args, registered, term, watcher, altScreen, num_cpus,
                    sample, stats, rendered, hostVars, signalled, after >>

\* a check against a tenth of a second
RefreshRateTooLow_Tenth(a) == FLt(a.refresh_rate, F(1, 10))

\* args.refresh_rate < 1.0
RefreshRateTooLow(a) == FLt(a.refresh_rate, F(1, 1))

\* "Refresh rate must be at least 1 second"
RejectRefreshRate ==
    /\ pc = "Merged"
    /\ ~args.generate_config
    /\ RefreshRateTooLow(args)
    /\ exit' = "err"
    /\ pc' = "Exited"
    /\ UNCHANGED << cli, config, args, registered, term, watcher, altScreen, num_cpus,
                    sample, stats, rendered, hostVars, signalled, after >>

\* signal_hook::flag::register for SIGTERM and SIGINT; a failure returns (?)
RegisterSignals ==
    /\ pc = "Merged"
    /\ ~args.generate_config
    /\ ~RefreshRateTooLow(args)
    /\ \/ /\ registered' = TRUE
          /\ pc' = "Registered"
          /\ exit' = exit
       \/ /\ registered' = FALSE
          /\ pc' = "Exited"
          /\ exit' = "err"
    /\ UNCHANGED << cli, config, args, term, watcher, altScreen, num_cpus,
                    sample, stats, rendered, hostVars, signalled, after >>

\* std::thread::spawn of the cleanup thread
SpawnWatcher ==
    /\ pc = "Registered"
    /\ watcher' = "polling"
    /\ pc' = "Spawned"
    /\ UNCHANGED << cli, config, args, exit, registered, term, altScreen, num_cpus,
                    sample, stats, rendered, hostVars, signalled, after >>

\* the CPU count is read once; setup_terminal enters the alternate screen
Setup(CpuCounts) ==
    /\ pc = "Spawned"
    /\ num_cpus' \in CpuCounts
    /\ altScreen' = TRUE
    /\ pc' = "Sample"
    /\ UNCHANGED << cli, config, args, exit, registered, term, watcher,
                    sample, stats, rendered, hostVars, signalled, after >>

(***************************************************************************)
(* The loop.                                                               *)
(***************************************************************************)
\* let sample = sample();
SampleStep(Snaps, Uptimes) ==
    /\ pc = "Sample"
    /\ \E m \in Snaps, t \in Uptimes : sample' = [map |-> m, uptime |-> t]
    /\ after' = Bump("samples")
    /\ pc' = "Sleep"
    /\ UNCHANGED << cli, config, args, exit, registered, term, watcher, altScreen,
                    num_cpus, stats, rendered, hostVars, signalled >>

\* thread::sleep(Duration::from_secs_f64(args.refresh_rate));
SleepStep ==
    /\ pc = "Sleep"
    /\ slept' = slept \cup {args.refresh_rate}
    /\ after' = Bump("sleeps")
    /\ pc' = "Stats"
    /\ UNCHANGED << cli, config, args, exit, registered, term, watcher, altScreen,
                    num_cpus, sample, stats, rendered, tick, lookups, termsize,
                    signalled >>

\* let mut stats = stats(num_cpus, sample);
StatsStep(P, W, Dts, Usages, first, Restarts) ==
    /\ pc = "Stats"
    /\ \E dt \in Dts, usage \in SecondReads(P, W, sample.map, Usages, first),
          order \in Orderings(DOMAIN sample.map),
          st \in SecondStarts(W, sample.map, Restarts) :
          /\ stats' = Stats(num_cpus, sample, sample.uptime + dt, usage, order)
          /\ tick' = [dt |-> dt, usage |-> usage, start_time |-> st]
    /\ pc' = "Filter"
    /\ UNCHANGED << cli, config, args, exit, registered, term, watcher, altScreen,
                    num_cpus, sample, rendered, slept, lookups, termsize,
                    signalled, after >>

PidsOf(list) == {list[i].pid : i \in 1..Len(list)}

\* stats.retain(|stat| filters.iter().all(|filter| filter(stat)));
\* a filter that is not asked for looks nothing up
FilterStep(Owners, Kprocs) ==
    /\ pc = "Filter"
    /\ \E owners \in [PidsOf(stats) -> IF IsSome(args.user) THEN Owners ELSE {None}],
          kprocs \in [PidsOf(stats) -> IF args.no_kernel THEN Kprocs ELSE {None}] :
          /\ stats' = Retain(stats, args, owners, kprocs)
          /\ lookups' = [owners |-> owners, kprocs |-> kprocs, before |-> stats]
    /\ pc' = "Sort"
    /\ UNCHANGED << cli, config, args, exit, registered, term, watcher, altScreen,
                    num_cpus, sample, rendered, slept, tick, termsize,
                    signalled, after >>

\* match args.sort_by { ... stats.sort_by(...) }
SortStep ==
    /\ pc = "Sort"
    /\ stats' = SortBy(args.sort_by, stats)
    /\ pc' = "Print"
    /\ UNCHANGED << cli, config, args, exit, registered, term, watcher, altScreen,
                    num_cpus, sample, rendered, hostVars, signalled, after >>

\* print(&mut stdout, stats, &args); stats is moved into print and dropped
\* there: the variable keeps the ranked list for the properties
PrintStep(Sizes) ==
    /\ pc = "Print"
    /\ \E size \in Sizes :
          /\ rendered' = PrintRows(stats, args, size)
          /\ termsize' = size
    /\ after' = Bump("renders")
    /\ pc' = "Check"
    /\ UNCHANGED << cli, config, args, exit, registered, term, watcher, altScreen,
                    num_cpus, sample, stats, slept, tick, lookups, signalled >>

\* a loop head that reads the flag only every other time it could
AfterCheck_SkipsOnce(flag) == IF flag /\ after.renders >= 2 THEN "Cleanup" ELSE "Sample"

\* a flag check with the condition negated
AfterCheck_Negated(flag) == IF flag THEN "Sample" ELSE "Cleanup"

\* where the flag check at the end of the loop body goes
AfterCheck(flag) == IF flag THEN "Cleanup" ELSE "Sample"

\* if term.load(Relaxed) { break; }
\* the cycle's values are dead here: the properties read them up to this step
CheckFlag ==
    /\ pc = "Check"
    /\ pc' = AfterCheck(term)
    /\ sample' = NoSample
    /\ stats' = << >>
    /\ rendered' = << >>
    /\ tick' = NoTick
    /\ lookups' = NoLookups
    /\ termsize' = None
    /\ UNCHANGED << cli, config, args, exit, registered, term, watcher, altScreen,
                    num_cpus, slept, signalled, after >>

(***************************************************************************)
(* main, after the loop.                                                   *)
(***************************************************************************)
\* let _ = cleanup_terminal(&mut stdout);
CleanupTerminal ==
    /\ pc = "Cleanup"
    /\ altScreen' = FALSE
    /\ pc' = "StoreTerm"
    /\ UNCHANGED << cli, config, args, exit, registered, term, watcher,
                    num_cpus, sample, stats, rendered, hostVars, signalled, after >>

\* term.store(true, Relaxed);
StoreTerm ==
    /\ pc = "StoreTerm"
    /\ term' = TRUE
    /\ pc' = "Join"
    /\ UNCHANGED << cli, config, args, exit, registered, watcher, altScreen,
                    num_cpus, sample, stats, rendered, hostVars, signalled, after >>

\* let _ = cleanup_on_signal.join(); Ok(())
JoinWatcher ==
    /\ pc = "Join"
    /\ watcher = "done"
    /\ exit' = "ok"
    /\ pc' = "Exited"
    /\ UNCHANGED << cli, config, args, registered, term, watcher, altScreen,
                    num_cpus, sample, stats, rendered, hostVars, signalled, after >>

(***************************************************************************)
(* The cleanup thread and the signals.                                     *)
(***************************************************************************)
\* while !term.load(Relaxed) { sleep(100 ms) }: the loop is left once the
\* flag reads true (a pass that reads false changes nothing)
WatcherSeesFlag ==
    /\ watcher = "polling"
    /\ term
    /\ watcher' = "restoring"
    /\ UNCHANGED << pc, cli, config, args, exit, registered, term, altScreen,
                    num_cpus, sample, stats, rendered, hostVars, signalled, after >>

\* let _ = execute!(stdout, Show, LeaveAlternateScreen);
WatcherRestores ==
    /\ watcher = "restoring"
    /\ altScreen' = FALSE
    /\ watcher' = "done"
    /\ UNCHANGED << pc, cli, config, args, exit, registered, term,
                    num_cpus, sample, stats, rendered, hostVars, signalled, after >>

\* SIGTERM or SIGINT while the handlers are registered: the flag is set
Signal ==
    /\ registered
    /\ pc # "Exited"
    /\ ~signalled
    /\ term' = TRUE
    /\ signalled' = TRUE
    /\ UNCHANGED << pc, cli, config, args, exit, registered, watcher, altScreen,
                    num_cpus, sample, stats, rendered, hostVars, after >>


(***************************************************************************)
(* The program: the values the whole-program specification draws.          *)
(***************************************************************************)
Opt(text, attached, val) == Some([text |-> text, attached |-> attached, val |-> val])

\* rustop | rustop -r 0.5 | rustop --refresh-rate=2 -k -u 0 --top 1
ProgramClis ==
    {NoCli,
     [NoCli EXCEPT !["refresh_rate"] = Opt("-r", FALSE, F(1, 2))],
     [NoCli EXCEPT !["refresh_rate"] = Opt("--refresh-rate", TRUE, F(2, 1)),
                   !["no_kernel"] = Opt("-k", FALSE, TRUE),
                   !["user"] = Opt("-u", FALSE, <<"0">>),
                   !["top"] = Opt("--top", FALSE, 1)]}

\* no configuration file | refresh_rate = 0.5, sort_by = "Memory"
ProgramConfigs ==
    {ConfigDefault,
     [NoConfig EXCEPT !["refresh_rate"] = Some(F(1, 2)), !["sort_by"] = Some("Memory")]}

ProgramInputs ==
    {[cli |-> c, cfg |-> g, gen |-> b] : c \in ProgramClis, g \in ProgramConfigs, b \in BOOLEAN}

ProgramCpuCounts == {0, 1, MaxCpus}
ProgramPids == {LowPid, HighPid}
ProgramAttrs ==
    {[name |-> Bash, cpu_time |-> 50, mem |-> 150 * MB, start_time |-> 0]}
ProgramSnapshots == Snapshots(ProgramPids, ProgramAttrs)
ProgramUsages == {[cpu_time |-> c, mem |-> 150 * MB] : c \in {50, 100}}
ProgramFirstUsage == [cpu_time |-> 50, mem |-> 150 * MB]
ProgramRestarts == {}
ProgramDts == {0, 1}
ProgramOwners == {None, Some(Some(<<"0">>))}
ProgramKprocs == {None, Some(Bash)}
ProgramSizes == {None, Some(MaxRows)}

Init ==
    /\ pc = "Start"
    /\ cli = NoCli
    /\ config = NoConfig
    /\ args = Merge(NoCli, NoConfig, FALSE)
    /\ exit = "none"
    /\ registered = FALSE
    /\ term = FALSE
    /\ watcher = "none"
    /\ altScreen = FALSE
    /\ num_cpus = 0
    /\ sample = NoSample
    /\ stats = << >>
    /\ rendered = << >>
    /\ slept = {}
    /\ tick = NoTick
    /\ lookups = NoLookups
    /\ termsize = None
    /\ signalled = FALSE
    /\ after = NoAfter

MainStep ==
    \/ LoadAndMerge(ProgramInputs)
    \/ GenerateConfig
    \/ RejectRefreshRate
    \/ RegisterSignals
    \/ SpawnWatcher
    \/ Setup(ProgramCpuCounts)
    \/ SampleStep(ProgramSnapshots, {10})
    \/ SleepStep
    \/ StatsStep(ProgramPids, ProgramPids, ProgramDts, ProgramUsages, ProgramFirstUsage,
                 ProgramRestarts)
    \/ FilterStep(ProgramOwners, ProgramKprocs)
    \/ SortStep
    \/ PrintStep(ProgramSizes)
    \/ CheckFlag
    \/ CleanupTerminal
    \/ StoreTerm
    \/ JoinWatcher

WatcherStep == WatcherSeesFlag \/ WatcherRestores

Next == MainStep \/ WatcherStep \/ Signal

Spec == Init /\ [][Next]_vars

\* the threads are scheduled fairly; signals are not owed
FairSpec == Spec /\ WF_vars(MainStep) /\ WF_vars(WatcherStep)


(***************************************************************************)
(* stats on its own: the specification starts where the loop calls stats,  *)
(* with the first snapshot, the CPU count and the second read drawn from   *)
(* wider sets, and applies it.                                             *)
(***************************************************************************)
ThirdPid == HighPid + 1
DerivePids == {LowPid, HighPid, ThirdPid}
DeriveMems == {150 * MB, 100 * MB}
DeriveFirstAttrs ==
    {[name |-> KernelTask, cpu_time |-> c, mem |-> m, start_time |-> 0] :
        c \in {0, 50}, m \in DeriveMems}
DeriveOtherAttrs ==
    {[name |-> Bash, cpu_time |-> 50, mem |-> 150 * MB, start_time |-> 7]}
DeriveSnapshots ==
    {a @@ b : a \in Snapshots({LowPid}, DeriveFirstAttrs),
              b \in Snapshots({HighPid, ThirdPid}, DeriveOtherAttrs)}
DeriveUsages == {[cpu_time |-> c, mem |-> m] : c \in {0, 50, 100}, m \in DeriveMems}
DeriveFirstUsage == [cpu_time |-> 50, mem |-> 150 * MB]
DeriveRestarts == {9}
DeriveDts == (-1)..MaxElapsed

\* main in its loop, nothing signalled, the settings those of a plain run
InLoop(at) ==
    /\ pc = at
    /\ cli = NoCli
    /\ config = ConfigDefault
    /\ exit = "none"
    /\ registered = TRUE
    /\ term = FALSE
    /\ watcher = "polling"
    /\ altScreen = TRUE
    /\ slept = {}
    /\ signalled = FALSE
    /\ after = NoAfter

InitDerive ==
    /\ InLoop("Stats")
    /\ args = Merge(NoCli, ConfigDefault, FALSE)
    /\ num_cpus \in 0..MaxCpus
    /\ \E m \in DeriveSnapshots : sample = [map |-> m, uptime |-> 10]
    /\ stats = << >>
    /\ rendered = << >>
    /\ tick = NoTick
    /\ lookups = NoLookups
    /\ termsize = None

NextDerive ==
    StatsStep(DerivePids, {LowPid}, DeriveDts, DeriveUsages, DeriveFirstUsage,
              DeriveRestarts)

DeriveSpec == InitDerive /\ [][NextDerive]_vars


(***************************************************************************)
(* Properties of stats (DeriveSpec).  After StatsStep, at pc = "Filter",   *)
(* sample is the first snapshot, tick the second read and stats the        *)
(* derived samples.                                                        *)
(***************************************************************************)
CountPid(list, p) == Cardinality({i \in 1..Len(list) : list[i].pid = p})

InBoth(p) == p \in DOMAIN sample.map /\ IsSome(tick.usage[p])

\* C1: the derivation emits exactly one sample for each PID that is in the
\* first snapshot and whose counters are read again, none for a PID missing
\* from either, and a missing PID neither fails main nor stops the cycle.
C1_OneSamplePerPidInBoth ==
    pc = "Filter" =>
        /\ exit = "none"
        /\ PidsOf(stats) \subseteq DOMAIN tick.usage
        /\ \A p \in DOMAIN tick.usage :
              CountPid(stats, p) = IF InBoth(p) THEN 1 ELSE 0

\* a PID in both snapshots, one that exited and one that appeared
C1_Witness ==
    /\ pc = "Filter"
    /\ \E p, q, r \in DOMAIN tick.usage :
          /\ InBoth(p) /\ CountPid(stats, p) = 1
          /\ q \in DOMAIN sample.map /\ ~IsSome(tick.usage[q])
          /\ r \notin DOMAIN sample.map /\ IsSome(tick.usage[r])

\* the elapsed time in hundredths, floored at 0.01
ElapsedHundredths(dt) == IF 100 * dt < 1 THEN 1 ELSE 100 * dt

\* x is the rational num/den
IsRational(x, num, den) == IsFinite(x) /\ den # 0 /\ x.n * den = x.d * num

\* the sample of stats at i is derived as the formula says
DerivedByFormula(i) ==
    LET s == stats[i]
        delta == Unwrap(tick.usage[s.pid]).cpu_time - sample.map[s.pid].cpu.n
        e == ElapsedHundredths(tick.dt)
    IN /\ IsRational(s.cpu, delta * 100 * 100, e * num_cpus)
       /\ (delta = 0 => s.cpu = F(0, 1))
       /\ (delta < 0 => ~IsNaN(s.cpu) /\ Sign(s.cpu) < 0)
       /\ (delta = 50 /\ tick.dt = 1 /\ num_cpus = 1 => s.cpu = F(5000, 1))
       /\ (delta = 50 /\ tick.dt = 1 /\ num_cpus = 4 => s.cpu = F(1250, 1))
       /\ (100 * tick.dt < 1 => IsRational(s.cpu, delta * 100 * 100, num_cpus))

\* C2: every emitted cpu_percent is (cpu delta / max(elapsed, 0.01)) *
\* (100 / logical_cpu_count), unclamped: 5000 on 1 core and 1250 on 4 for a
\* delta of 50 over 1, exactly 0 for equal counters, negative for a negative
\* delta, and the value of the floor for every elapsed time below it.
C2_CpuPercentFormula ==
    pc = "Filter" => \A i \in 1..Len(stats) : DerivedByFormula(i)

\* what holds of the code: the same, on a host with at least one CPU
CpuPercentFormulaWithCpus ==
    pc = "Filter" /\ num_cpus >= 1 => \A i \in 1..Len(stats) : DerivedByFormula(i)

(***************************************************************************)
(* Properties of the whole program (Spec, FairSpec).                       *)
(***************************************************************************)
LoopPcs == {"Sample", "Sleep", "Stats", "Filter", "Sort", "Print", "Check"}

\* C8: with zero logical CPUs main fails before the loop: no cycle is run
\* and no sample with an infinite or NaN cpu_percent is produced.
C8_ZeroCpusRejected ==
    /\ pc \in LoopPcs => num_cpus >= 1
    /\ \A i \in 1..Len(stats) : IsFinite(stats[i].cpu)


(***************************************************************************)
(* The filters on their own: the specification starts where the loop       *)
(* filters, with the settings and the derived samples drawn from wider     *)
(* sets, and applies the retain.                                           *)
(***************************************************************************)
FilterStats ==
    {[pid |-> p, name |-> n, cpu |-> F(c, 1), mem |-> m, start_time |-> 0] :
        p \in {LowPid, HighPid}, n \in {KernelTask, Bash}, c \in {0, 50},
        m \in {500, 150 * KB, 100 * MB + MB \div 2, 150 * MB, 2 * GB}}
FilterOther ==
    [pid |-> ThirdPid, name |-> Bash, cpu |-> F(50, 1), mem |-> 150 * MB, start_time |-> 0]
FilterLists ==
    {<< >>} \cup {<< s >> : s \in FilterStats} \cup {<< s, FilterOther >> : s \in FilterStats}
FilterArgs ==
    {[Merge(NoCli, ConfigDefault, FALSE)
        EXCEPT !.filter = f, !.user = u, !.no_kernel = k, !.human_readable = h,
               !.cpu_above = ca, !.mem_above = ma, !.mem_below = mb] :
        f \in {None, Some(<<"b", "A">>)}, u \in {None, Some(<<"5">>)},
        k \in BOOLEAN, h \in BOOLEAN, ca \in {None, Some(F(10, 1))},
        ma \in {None, Some(100), Some(200)}, mb \in {None, Some(200)}}
FilterOwners == {None, Some(None), Some(Some(<<"0">>)), Some(Some(<<"5", "0", "1">>))}
FilterKprocs == {None, Some(KernelTask), Some(Bash)}

InitFilter ==
    /\ InLoop("Filter")
    /\ args \in FilterArgs
    /\ num_cpus = 1
    /\ sample = NoSample
    /\ stats \in FilterLists
    /\ rendered = << >>
    /\ tick = NoTick
    /\ lookups = NoLookups
    /\ termsize = None

NextFilter == FilterStep(FilterOwners, FilterKprocs)

FilterSpec == InitFilter /\ [][NextFilter]_vars

(***************************************************************************)
(* Properties of the filters (FilterSpec).  After FilterStep, at           *)
(* pc = "Sort", lookups.before is the list that was filtered, lookups the  *)
(* results of the lookups and stats what was retained.                     *)
(***************************************************************************)
Filtered == Range(lookups.before)
Retained(s) == s \in Range(stats)
OwnerOf(s) == lookups.owners[s.pid]
KprocOf(s) == lookups.kprocs[s.pid]

\* the predicates other than the kernel one accept s
OthersThanKernelAccept(s) ==
    /\ NameFilter(args.filter, s)
    /\ UserFilter(args.user, s, OwnerOf(s))
    /\ CpuFilter(args.cpu_above, args.cpu_below, s)
    /\ MemFilter(args.mem_above, args.mem_below, args.human_readable, s)

OwnerLookupFailed(s) == ~IsSome(OwnerOf(s)) \/ ~IsSome(Unwrap(OwnerOf(s)))

\* C4: with no_kernel, a sample whose process lookup fails is not rejected
\* by the kernel exclusion, whatever its PID; with a user filter, a sample
\* whose owner lookup fails (no process, or no user id) is dropped; and when
\* the process lookup succeeds the kernel exclusion rejects exactly the
\* samples with a PID below 100 or a kernel name.
C4_FailOpenKernelFailClosedUser ==
    pc = "Sort" =>
        \A s \in Filtered :
            /\ args.no_kernel /\ ~IsSome(KprocOf(s)) =>
                  (Retained(s) <=> OthersThanKernelAccept(s))
            /\ IsSome(args.user) /\ OwnerLookupFailed(s) => ~Retained(s)
            /\ args.no_kernel /\ IsSome(KprocOf(s)) =>
                  (Retained(s) <=>
                      /\ OthersThanKernelAccept(s)
                      /\ ~(s.pid < 100 \/ Unwrap(KprocOf(s)) = KernelTask))

\* both filters asked for: a low PID is kept on a failed process lookup
\* while another sample is dropped on a failed owner lookup
C4_Witness ==
    /\ pc = "Sort"
    /\ args.no_kernel /\ IsSome(args.user)
    /\ \E s, t \in Filtered :
          /\ s.pid < 100 /\ ~IsSome(KprocOf(s)) /\ Retained(s)
          /\ OwnerLookupFailed(t) /\ ~Retained(t)
          /\ IsSome(KprocOf(t)) /\ Unwrap(KprocOf(t)) # KernelTask /\ t.pid >= 100

\* bytes > threshold * unit and bytes < threshold * unit, without the product
MoreThan(bytes, threshold, unit) ==
    bytes \div unit > threshold \/ (bytes \div unit = threshold /\ bytes % unit > 0)
LessThan(bytes, threshold, unit) == bytes \div unit < threshold

\* the bytes of the unit the memory column shows a sample in
DisplayedUnit(bytes, human_readable) ==
    LET shown == FormatMemory(bytes, human_readable).unit
    IN CASE shown = "GB" -> GB
         [] shown = "MB" -> MB
         [] shown = "KB" -> KB
         [] shown = "B" -> 1
         [] OTHER -> MB

\* the memory range, read in the unit the column shows
InDisplayedRange(s) ==
    LET unit == DisplayedUnit(s.mem, args.human_readable)
    IN /\ IsSome(args.mem_above) => MoreThan(s.mem, Unwrap(args.mem_above), unit)
       /\ IsSome(args.mem_below) => LessThan(s.mem, Unwrap(args.mem_below), unit)

\* the predicates other than the memory one accept s
OthersThanMemAccept(s) ==
    /\ NameFilter(args.filter, s)
    /\ UserFilter(args.user, s, OwnerOf(s))
    /\ KernelFilter(args.no_kernel, s, KprocOf(s))
    /\ CpuFilter(args.cpu_above, args.cpu_below, s)

\* C5: the memory range is strict and reads a threshold in the unit the
\* memory column shows: T * 1,000,000 bytes with human-readable off (100
\* keeps 150,000,000 bytes, 200 drops them), and the displayed unit of the
\* sample with human-readable on.
C5_MemThresholdInDisplayedUnit ==
    pc = "Sort" =>
        \A s \in Filtered :
            /\ Retained(s) <=> (OthersThanMemAccept(s) /\ InDisplayedRange(s))
            /\ ~args.human_readable /\ s.mem = 150 * MB /\ OthersThanMemAccept(s)
               /\ ~IsSome(args.mem_below) =>
                  /\ args.mem_above = Some(100) => Retained(s)
                  /\ args.mem_above = Some(200) => ~Retained(s)

\* what holds of the code: the claim with human-readable off
MemThresholdInMBWhenNotHuman ==
    pc = "Sort" /\ ~args.human_readable =>
        \A s \in Filtered :
            Retained(s) <=> (OthersThanMemAccept(s) /\ InDisplayedRange(s))


(***************************************************************************)
(* The sort on its own: the specification starts where the loop sorts,     *)
(* with the key and the list drawn from wider sets (cpu values with NaN),  *)
(* and applies the sort.                                                   *)
(***************************************************************************)
SortStats ==
    {[pid |-> p, name |-> Bash, cpu |-> c, mem |-> m, start_time |-> 0] :
        p \in DerivePids, c \in {NaN, F(1, 1), F(2, 1)}, m \in {MB, 2 * MB}}

\* the lists of at most three samples with distinct PIDs
SortLists ==
    {<< >>} \cup {<< a >> : a \in SortStats}
    \cup {q \in SortStats \X SortStats : q[1].pid # q[2].pid}
    \cup {<< a, b, c >> : a \in {x \in SortStats : x.pid = LowPid},
                         b \in {x \in SortStats : x.pid = HighPid},
                         c \in {x \in SortStats : x.pid = ThirdPid}}

SortKeys == {"Cpu", "Memory", "Pid", "StartTime"}

InitSort ==
    /\ InLoop("Sort")
    /\ \E k \in SortKeys : args = [Merge(NoCli, ConfigDefault, FALSE) EXCEPT !.sort_by = k]
    /\ num_cpus = 1
    /\ sample = NoSample
    /\ stats \in SortLists
    /\ rendered = << >>
    /\ tick = NoTick
    /\ lookups = NoLookups
    /\ termsize = None

NextSort == SortStep

SortSpec == InitSort /\ [][NextSort]_vars

\* the two lists hold the same samples
IsPermutation(a, b) ==
    /\ Len(a) = Len(b)
    /\ \A i \in 1..Len(a) :
          Cardinality({j \in 1..Len(a) : a[j] = a[i]})
              = Cardinality({j \in 1..Len(b) : b[j] = a[i]})

\* finite values descend and every NaN comes after every finite value
RankedByCpu(list) ==
    \A i, j \in 1..Len(list) :
        /\ i < j /\ IsFinite(list[i].cpu) /\ IsFinite(list[j].cpu) =>
              ~FLt(list[i].cpu, list[j].cpu)
        /\ IsNaN(list[i].cpu) /\ IsFinite(list[j].cpu) => j < i

RankedByCpuWithoutNaN ==
    [][pc = "Sort" /\ pc' = "Print" /\ args.sort_by = "Cpu" =>
          /\ IsPermutation(stats, stats')
          /\ (\A i \in 1..Len(stats) : ~IsNaN(stats[i].cpu)) => RankedByCpu(stats')]_vars

(***************************************************************************)
(* print on its own: the specification starts where the loop prints, with  *)
(* the row cap, the ranked list and the terminal size drawn from wider     *)
(* sets, and applies it.                                                   *)
(***************************************************************************)
PrintFull ==
    << [pid |-> ThirdPid, name |-> Bash, cpu |-> F(50, 1), mem |-> 150 * MB, start_time |-> 7],
       [pid |-> LowPid, name |-> KernelTask, cpu |-> F(25, 2), mem |-> 2 * GB, start_time |-> 0],
       [pid |-> HighPid, name |-> Bash, cpu |-> F(0, 1), mem |-> 150 * KB, start_time |-> 7],
       [pid |-> ThirdPid + 1, name |-> Unknown, cpu |-> F(0, 1), mem |-> 500, start_time |-> 0] >>
PrintLists == {SubSeq(PrintFull, 1, n) : n \in 0..4} \cup {SubSeq(PrintFull, 2, 4)}
PrintTops == {None} \cup {Some(n) : n \in 0..MaxTop}
PrintSizes == {None} \cup {Some(n) : n \in 0..MaxRows}

InitPrint ==
    /\ InLoop("Print")
    /\ \E t \in PrintTops, h \in BOOLEAN :
          args = [Merge(NoCli, ConfigDefault, FALSE) EXCEPT !.top = t, !.human_readable = h]
    /\ num_cpus = 1
    /\ sample = NoSample
    /\ stats \in PrintLists
    /\ rendered = << >>
    /\ tick = NoTick
    /\ lookups = NoLookups
    /\ termsize = None

NextPrint == PrintStep(PrintSizes)

PrintSpec == InitPrint /\ [][NextPrint]_vars

\* the rows the terminal leaves below the header: none when the size is unknown
RowBudget == IF IsSome(termsize) /\ Unwrap(termsize) > 2 THEN Unwrap(termsize) - 2 ELSE 0

\* C7: print writes min(row cap, terminal rows less the header, number of
\* samples) rows, the first ones of the ranked list in its order (a cap of 5
\* with 3 rows left writes the first 3); without a cap the terminal alone
\* bounds them; an unknown terminal size gives no row, and the cycle goes on.
C7_RowsArePrefixBoundedByCapAndTerminal ==
    pc = "Check" =>
        /\ exit = "none"
        /\ \A n \in 0..Len(stats) :
              Len(rendered) = n <=>
                  /\ n <= RowBudget
                  /\ IsSome(args.top) => n <= Unwrap(args.top)
                  /\ \/ n = Len(stats)
                     \/ n = RowBudget
                     \/ IsSome(args.top) /\ n = Unwrap(args.top)
        /\ Len(rendered) <= Len(stats)
        /\ \A i \in 1..Len(rendered) : rendered[i].pid = stats[i].pid
        /\ ~IsSome(termsize) => rendered = << >>
        /\ args.top = Some(5) /\ RowBudget = 3 /\ Len(stats) >= 3 => Len(rendered) = 3

\* a cap of 5, 3 rows left, 4 samples: the first 3 are written
C7_Witness ==
    /\ pc = "Check"
    /\ args.top = Some(5)
    /\ termsize = Some(5)
    /\ Len(stats) = 4
    /\ Len(rendered) = 3
    /\ \A i \in 1..3 : rendered[i].pid = stats[i].pid

(***************************************************************************)
(* The merge on its own: the specification draws the command line and the  *)
(* configuration from wider sets (one field at a time in every form, the   *)
(* other fields not supplied) and applies the merge.                       *)
(***************************************************************************)
FieldValues(f) ==
    CASE f = "sort_by" -> {"Memory", "Pid"}
      [] f = "refresh_rate" -> {F(2, 1), F(5, 1)}
      [] f = "top" -> {1, MaxTop}
      [] f = "filter" -> {<<"b">>, <<"k">>}
      [] f = "user" -> {<<"0">>, <<"5">>}
      [] f \in FlagFields -> {TRUE, FALSE}
      [] f \in {"cpu_above", "cpu_below"} -> {F(10, 1), F(20, 1)}
      [] f \in {"mem_above", "mem_below"} -> {100, 200}

\* the ways clap accepts the option: the name alone ("-s memory",
\* "--sort-by memory", "-k") or glued to more ("-smemory",
\* "--sort-by=memory", "-kH"); a flag takes no "=value"
CliForms(f) ==
    LET forms == {q \in OptionNames(f) \X BOOLEAN :
                     ~(q[2] /\ q[1] \in {"--no-kernel", "--human-readable"})}
    IN {None} \cup
       {Opt(q[1], q[2], v) : q \in forms,
                             v \in IF f \in FlagFields THEN {TRUE} ELSE FieldValues(f)}

MergeInputs ==
    UNION {{[cli |-> [NoCli EXCEPT ![f] = c], cfg |-> [base EXCEPT ![f] = g], gen |-> FALSE] :
                c \in CliForms(f),
                g \in {None} \cup {Some(v) : v \in FieldValues(f)},
                base \in {NoConfig, ConfigDefault}}
           : f \in Fields}

NextMerge == LoadAndMerge(MergeInputs)

MergeSpec == Init /\ [][NextMerge]_vars

\* the value the command line gives field f
CliValue(f) ==
    IF f \in FlagFields THEN TRUE
    ELSE IF f \in OptionalFields THEN Some(Unwrap(cli[f]).val)
    ELSE Unwrap(cli[f]).val

\* the value the configuration gives field f
ConfigValue(f) == IF f \in OptionalFields THEN Some(Unwrap(config[f])) ELSE Unwrap(config[f])

\* C10: field by field, the merged value is the command line's when the
\* option is on the command line in any accepted form, and the
\* configuration's only for a field the command line does not supply.
C10_CommandLineTakesPrecedence ==
    pc = "Merged" =>
        \A f \in Fields :
            /\ IsSome(cli[f]) => args[f] = CliValue(f)
            /\ ~IsSome(cli[f]) /\ IsSome(config[f]) => args[f] = ConfigValue(f)
            /\ ~IsSome(cli[f]) /\ ~IsSome(config[f]) => args[f] = ClapDefault(f)

\* what holds of the code: the same when every supplied option is an
\* argument of its own ("-s memory", not "--sort-by=memory")
CommandLinePrecedenceForBareOptions ==
    pc = "Merged" /\ (\A f \in Fields : IsSome(cli[f]) => ~Unwrap(cli[f]).attached) =>
        \A f \in Fields :
            /\ IsSome(cli[f]) => args[f] = CliValue(f)
            /\ ~IsSome(cli[f]) /\ IsSome(config[f]) => args[f] = ConfigValue(f)
            /\ ~IsSome(cli[f]) /\ ~IsSome(config[f]) => args[f] = ClapDefault(f)

\* the settings are fixed once merged
ArgsFixedAfterMerge == [][pc # "Start" => args' = args]_vars


\* the refresh rate is below 1 and nothing of the dashboard has been started
NothingStarted ==
    /\ pc \in {"Merged", "Exited"}
    /\ ~registered
    /\ watcher = "none"
    /\ ~altScreen
    /\ sample = NoSample
    /\ after = NoAfter

AllSleepsAtLeastOne == \A r \in slept : IsFinite(r) /\ r.n >= r.d

\* C9 as stated: a merged refresh interval below 1 makes main return an
\* error before the terminal is acquired, the watcher spawned or a
\* snapshot taken, and every sleep of the loop is of at least 1.
C9_LowRefreshRateReturnsError ==
    /\ pc # "Start" /\ RefreshRateTooLow(args) =>
          /\ NothingStarted
          /\ pc = "Exited" => exit = "err"
    /\ AllSleepsAtLeastOne

\* C9, amended: the same, where main returns an error unless
\* --generate-config was given: then it returns after the save, with Ok when
\* the save succeeded, also before anything of the dashboard is started.
C9_LowRefreshRateNeverReachesLoop ==
    /\ pc # "Start" /\ RefreshRateTooLow(args) =>
          /\ NothingStarted
          /\ pc = "Exited" /\ ~args.generate_config => exit = "err"
          /\ pc = "Exited" /\ args.generate_config => exit \in {"ok", "err"}
    /\ AllSleepsAtLeastOne

\* a refresh rate of 0.5 given on the command line was rejected
C9_Witness ==
    /\ pc = "Exited"
    /\ exit = "err"
    /\ ~args.generate_config
    /\ args.refresh_rate = F(1, 2)
    /\ IsSome(cli["refresh_rate"])
    /\ NothingStarted

\* main has returned Ok with the terminal restored and the watcher joined
Stopped == pc = "Exited" /\ exit = "ok" /\ ~altScreen /\ watcher = "done"

MidCycle == pc \in {"Sleep", "Stats", "Filter", "Sort", "Print"}

\* C3: once a signal has set the flag, main finishes the render pass of the
\* cycle it is in (the signal itself moves nothing of main), begins at most
\* one more sample, sleep and render, leaves the loop only at the flag check
\* that follows a render and does leave it there, and, the threads being
\* scheduled fairly, restores the terminal, joins the watcher and returns.
C3_ShutdownWithinOneCycle ==
    /\ [](after.samples <= 1 /\ after.sleeps <= 1 /\ after.renders <= 1)
    /\ [][signalled' /\ ~signalled =>
             pc' = pc /\ sample' = sample /\ stats' = stats /\ rendered' = rendered]_vars
    /\ [][pc' = "Cleanup" /\ pc # "Cleanup" => pc = "Check" /\ term]_vars
    /\ [][signalled /\ pc = "Check" /\ pc' # pc => pc' = "Cleanup"]_vars
    /\ (signalled /\ MidCycle ~> pc = "Check")
    /\ (signalled ~> Stopped)

\* the signal came in the middle of a cycle, whose render was then finished,
\* and main has stopped
C3_Witness ==
    /\ Stopped
    /\ signalled
    /\ after = [samples |-> 0, sleeps |-> 0, renders |-> 1]

(***************************************************************************)
(* Memory and start time of the derived samples (DeriveSpec).              *)
(***************************************************************************)
FirstOf(s) == sample.map[s.pid]

\* the memory of the sample is that of the second read, as it was read
MemoryOfSecondRead(s) == s.mem = Unwrap(tick.usage[s.pid]).mem

\* C11 as stated: in every emitted sample memory_bytes and start_time are
\* both the values of the second snapshot, copied as they are.
C11_MemoryAndStartTimeFromSecondSnapshot ==
    pc = "Filter" =>
        \A i \in 1..Len(stats) :
            /\ MemoryOfSecondRead(stats[i])
            /\ stats[i].start_time = tick.start_time[stats[i].pid]

\* C11, amended: in every emitted sample memory_bytes is the value of the
\* second read, copied as it is (not a difference, not the first value), and
\* start_time is the value recorded in the first snapshot of the cycle.
C11_MemoryFromSecondStartTimeFromFirst ==
    pc = "Filter" =>
        \A i \in 1..Len(stats) :
            /\ MemoryOfSecondRead(stats[i])
            /\ stats[i].start_time = FirstOf(stats[i]).start_time

\* a sample whose memory changed between the reads and whose PID shows
\* another start time at the second read
C11_Witness ==
    /\ pc = "Filter"
    /\ \E i \in 1..Len(stats) :
          LET s == stats[i]
          IN /\ FirstOf(s).mem # Unwrap(tick.usage[s.pid]).mem
             /\ s.mem = Unwrap(tick.usage[s.pid]).mem
             /\ s.mem # FirstOf(s).mem - Unwrap(tick.usage[s.pid]).mem
             /\ tick.start_time[s.pid] # FirstOf(s).start_time
             /\ s.start_time = FirstOf(s).start_time

(***************************************************************************)
(* Who writes the flag and where main reads it (FairSpec).                 *)
(***************************************************************************)
\* the step of the signal handler
SignalHandled == ~signalled /\ signalled'

\* the step of main that stores into the flag
MainStoresFlag == pc = "StoreTerm" /\ pc' = "Join"

\* main arrives at the snapshot that begins a cycle
CycleBegins == pc # "Sample" /\ pc' = "Sample"

OneCycleAfterSignal == [samples |-> 1, sleeps |-> 1, renders |-> 1]

\* C12 as stated: only the signal side writes the flag, main never does,
\* and main reads it at the top of every cycle, before the snapshot: no
\* cycle begins with the flag set, the first one included.
C12_FlagPolledAtTopOfCycle ==
    /\ [][term' # term => SignalHandled]_vars
    /\ [][~MainStoresFlag]_vars
    /\ [][CycleBegins => ~term]_vars

\* C12, amended: the flag changes only when the signal handler sets it; the
\* steps of the loop never write it, and the one store of main comes after
\* the loop, when the flag is already set.  Main reads the flag at the
\* bottom of every cycle, after the render, and nowhere else: every cycle
\* but the first begins from a read that found the flag unset, the first
\* begins without a read, so that a signal that arrives before the first
\* cycle is still followed by one whole cycle of sampling, waiting and
\* rendering before the loop is left.
C12_FlagPolledAtBottomOfCycle ==
    /\ [][term' # term => SignalHandled /\ term' /\ pc' = pc]_vars
    /\ [][pc' # pc /\ pc \in LoopPcs => term' = term]_vars
    /\ [][MainStoresFlag => term /\ term' = term]_vars
    /\ [][pc = "Check" /\ pc' # pc => pc' = (IF term THEN "Cleanup" ELSE "Sample")]_vars
    /\ [][CycleBegins => pc \in {"Spawned", "Check"} /\ (pc = "Check" => ~term)]_vars
    /\ [][pc' # pc /\ pc \in LoopPcs \ {"Check"} => pc' \in LoopPcs]_vars
    /\ (pc = "Spawned" /\ term ~> pc = "Check" /\ term /\ after = OneCycleAfterSignal)

\* the first cycle has taken its snapshot with the flag set before it
C12_Witness ==
    /\ pc = "Sleep"
    /\ slept = {}
    /\ term
    /\ sample # NoSample
    /\ after = [samples |-> 1, sleeps |-> 0, renders |-> 0]

=============================================================================
